---- MODULE Spec2Model ----
(***************************************************************************)
(* Model of the ImageEditor component (components/ImageEditor.tsx): the    *)
(* React state of one editor, its event handlers, its two effects and the  *)
(* asynchronous work they leave in flight (file reads, background          *)
(* removals, preview renders, palette extractions).                        *)
(*                                                                         *)
(* A handler runs to its first await in one step, together with the        *)
(* re-render and the effects its state updates cause; every continuation   *)
(* after an await is a step of its own.  State updates made in one         *)
(* continuation are batched into one re-render.                            *)
(***************************************************************************)
EXTENDS Naturals, Integers, Sequences, FiniteSets, Bags, TLC

\* ------------------------------------------------------------------ bounds

\* User gestures (uploads, slider moves, button clicks, leaving the page) in
\* one run of the editor, and in one run of the longer scenarios.
MaxGestures == 3
MaxGesturesDeep == 4

\* User gestures in one run of the liveness scenarios.
MaxGesturesLive == 3

\* ------------------------------------------------------------- constants

\* A nullable value is None or Some(x); x is Val(v).
None == <<>>
Some(x) == <<x>>
Val(v) == v[1]

MAX_FILE_SIZE == 8 * 1024 * 1024

sliders ==
  [brightness |-> [min |-> -40, max |-> 40],
   contrast   |-> [min |-> -30, max |-> 30],
   saturation |-> [min |-> -30, max |-> 30]]

SliderKey == DOMAIN sliders

initialFilters == [brightness |-> 0, contrast |-> 0, saturation |-> 0]

\* Values a slider is moved to (0 is where reset, revert and upload put it).
SliderInputs(key) == {sliders[key].max}

\* ----------------------------------------------------------------- files

\* The files a user picks or drops.  data names the pixels of the file;
\* name is the file name as a sequence of characters.
Files ==
  { [name |-> <<"a", ".", "b", ".", "p">>, type |-> "image/png",
     size |-> MAX_FILE_SIZE, data |-> 1],
    [name |-> <<"c">>, type |-> "image/gif", size |-> 2048, data |-> 2],
    [name |-> <<"d", ".", "t">>, type |-> "text/plain", size |-> 10, data |-> 3],
    [name |-> <<"e", ".", "p">>, type |-> "image/png",
     size |-> MAX_FILE_SIZE + 1, data |-> 4] }

\* String.prototype.startsWith("image/") on a MIME type.
StartsWithImage(type) == type \in {"image/png", "image/jpeg", "image/webp", "image/gif"}

\* FileReader.readAsDataURL: the data URL of a blob, here the pixels it
\* encodes and how many background removals produced them.
readAsDataURL(data, rm) == [src |-> data, rm |-> rm]

\* readFile resolves with the data URL of the uploaded file.
readFile(file) == readAsDataURL(file.data, 0)

\* The external segmentation call followed by the re-encoding of its result.
removeBackground(image) == readAsDataURL(image.src, image.rm + 1)

\* ------------------------------------------------------- filter pipeline

\* applyCanvasFilters: the canvas drawn once through the three percentages.
applyCanvasFilters(base64, f) ==
  [image |-> base64,
   brightnessPct |-> 100 + f.brightness,
   contrastPct   |-> 100 + f.contrast,
   saturationPct |-> 100 + f.saturation]

\* --------------------------------------------------------------- palette

HexDigits == <<"0","1","2","3","4","5","6","7","8","9","a","b","c","d","e","f">>

Upper(c) ==
  CASE c = "a" -> "A" [] c = "b" -> "B" [] c = "c" -> "C"
    [] c = "d" -> "D" [] c = "e" -> "E" [] c = "f" -> "F" [] OTHER -> c

\* Number.prototype.toString(16) of a value 0..255
ToString16(v) ==
  IF v < 16 THEN <<HexDigits[v + 1]>>
  ELSE <<HexDigits[(v \div 16) + 1], HexDigits[(v % 16) + 1]>>

\* String.prototype.padStart(2, "0")
PadStart2(s) == IF Len(s) < 2 THEN <<"0">> \o s ELSE s

toHex(rgb) ==
  LET joined == PadStart2(ToString16(rgb[1])) \o PadStart2(ToString16(rgb[2]))
                  \o PadStart2(ToString16(rgb[3]))
      hex == <<"#">> \o joined
  IN  [i \in 1..Len(hex) |-> Upper(hex[i])]

\* The dominant colours of the uploaded pixels, most dominant first.
Pixels ==
  << << <<255, 255, 255>>, <<10, 20, 30>>, <<0, 128, 255>>,
        <<200, 16, 15>>, <<1, 2, 3>>, <<171, 205, 239>> >>,
     << <<255, 0, 0>>, <<0, 255, 0>>, <<9, 9, 171>> >> >>

\* ColorThief.getPalette(image, count): up to count dominant colours; a
\* removed background takes the most dominant colour away.  An image with
\* no opaque pixel left has no palette and the call throws.
getPalette(image, count) ==
  LET all == Pixels[image.src]
      left == SubSeq(all, 1 + image.rm, Len(all))
  IN  SubSeq(left, 1, IF Len(left) < count THEN Len(left) ELSE count)

\* Array.prototype.slice(from, to)
Slice(arr, from, to) == SubSeq(arr, from + 1, IF Len(arr) < to THEN Len(arr) ELSE to)

\* updateCssSnippet with the length test off by one (<= 3 for < 3).
updateCssSnippetOffByOne(colors) ==
  IF Len(colors) <= 3 THEN <<>>
  ELSE << "background: linear-gradient(135deg, ", colors[1], " 0%, ",
          colors[2], " 50%, ", colors[3], " 100%);", "color: ", colors[3],
          ";", "box-shadow: 0 24px 48px ", colors[1] \o <<"3", "3">>, ";",
          "border-radius: 24px;", "padding: clamp(32px, 5vw, 64px);" >>

\* updateCssSnippet: the text it stores, as the sequence of its pieces.
updateCssSnippet(colors) ==
  IF Len(colors) < 3 THEN <<>>
  ELSE << "background: linear-gradient(135deg, ", colors[1], " 0%, ",
          colors[2], " 50%, ", colors[3], " 100%);", "color: ", colors[3],
          ";", "box-shadow: 0 24px 48px ", colors[1] \o <<"3", "3">>, ";",
          "border-radius: 24px;", "padding: clamp(32px, 5vw, 64px);" >>

\* usePaletteSuggestions without the fallback of accent to the first colour.
usePaletteSuggestionsNoFallback(colors) ==
  IF Len(colors) = 0 THEN <<>>
  ELSE LET primary == colors[1]
           accent == IF Len(colors) >= 2 THEN colors[2] ELSE <<"undefined">>
           subtle == colors[Len(colors)]
       IN  << << "Hero headline with ", primary, " accent buttons and ", subtle,
                 " background cards" >>,
              << "Landing page split layout using ", primary, " gradients and ",
                 accent, " hover states" >>,
              << "E-commerce feature grid pairing ", primary, " highlights with ",
                 subtle, " surface tones" >> >>

\* usePaletteSuggestions: the three layout ideas, each as the sequence of its
\* pieces; none for an empty palette.
usePaletteSuggestions(colors) ==
  IF Len(colors) = 0 THEN <<>>
  ELSE LET primary == colors[1]
           accent == IF Len(colors) >= 2 THEN colors[2] ELSE colors[1]
           subtle == colors[Len(colors)]
       IN  << << "Hero headline with ", primary, " accent buttons and ", subtle,
                 " background cards" >>,
              << "Landing page split layout using ", primary, " gradients and ",
                 accent, " hover states" >>,
              << "E-commerce feature grid pairing ", primary, " highlights with ",
                 subtle, " surface tones" >> >>

\* ----------------------------------------------------------------- state

VARIABLES
  fileName, fileSize, originalImage, baseImage, previewImage, filters,
  palette, cssSnippet, isProcessing, error, success,
  paletteIdeas, \* usePaletteSuggestions(palette) of the last render
  mounted,      \* useIsMounted's ref
  reads,        \* bag of files whose readFile is pending
  removals,     \* launchBackgroundRemoval calls in flight, in invocation order
  renders,      \* bag of applyCanvasFilters calls in flight
  extractions,  \* bag of extractPalette calls in flight
  gestures,     \* number of user gestures still to come in this run
  download,     \* the download the last step triggered, None if it triggered none
  renderFailed, \* history: some applyCanvasFilters call has thrown
  sinceRevert   \* history: revertToOriginal was the last user action

session == <<fileName, fileSize, originalImage, baseImage, previewImage,
             filters, palette, cssSnippet, paletteIdeas>>
status == <<isProcessing, error, success>>
inflight == <<reads, removals, renders, extractions>>
history == <<renderFailed, sinceRevert>>
vars == <<session, status, inflight, mounted, gestures, download, history>>

\* The component after its first render and its effects: nothing loaded,
\* previewImage cleared by applyFilters, the mounted ref set.
Constructed ==
  /\ fileName = None
  /\ fileSize = 0
  /\ originalImage = None
  /\ baseImage = None
  /\ previewImage = None
  /\ filters = initialFilters
  /\ palette = <<>>
  /\ cssSnippet = <<>>
  /\ paletteIdeas = <<>>
  /\ isProcessing = None
  /\ error = None
  /\ success = None
  /\ mounted = TRUE
  /\ reads = EmptyBag
  /\ removals = <<>>
  /\ renders = EmptyBag
  /\ extractions = EmptyBag
  /\ download = None
  /\ renderFailed = FALSE
  /\ sinceRevert = FALSE

Init == Constructed /\ gestures = MaxGestures

InitDeep == Constructed /\ gestures = MaxGesturesDeep

InitLive == Constructed /\ gestures = MaxGesturesLive

\* A user gesture reaches a handler of the mounted component.
Gesture == mounted /\ gestures > 0 /\ gestures' = gestures - 1

\* --------------------------------------------------------------- effects

One(x) == SetToBag({x})

\* The effect on applyFilters (lines 188-190) after a re-render in which
\* baseImage becomes b and filters becomes f: the callback is a new one when
\* either changed, and runs to its await.
applyFilters(b, f) ==
  IF b # baseImage \/ f # filters
  THEN IF b = None
       THEN previewImage' = None /\ UNCHANGED renders
       ELSE /\ renders' = renders (+) One([base |-> Val(b), filters |-> f])
            /\ UNCHANGED previewImage
  ELSE UNCHANGED <<previewImage, renders>>

\* The effect on baseImage (lines 192-196): extractPalette(baseImage) runs to
\* its first await.
extractPaletteEffect(b) ==
  IF b # baseImage /\ b # None
  THEN extractions' = extractions (+) One([source |-> Val(b)])
  ELSE UNCHANGED extractions

\* History kept with a removal in flight: superseded is the result of a call
\* invoked later that already succeeded, while no upload or revert has
\* written baseImage since.
NotSuperseded(rs) == [i \in 1..Len(rs) |-> [rs[i] EXCEPT !.superseded = None]]

\* --------------------------------------------------------------- upload

\* handleFile with the read started before the validation.
handleFileReadsFirst(file) ==
  /\ Gesture
  /\ reads' = reads (+) One(file)
  /\ IF ~StartsWithImage(file.type)
     THEN /\ error' = Some("Please upload an image file (PNG, JPG, or WebP).")
          /\ success' = None
          /\ UNCHANGED isProcessing
     ELSE IF file.size > MAX_FILE_SIZE
     THEN /\ error' = Some("File is too large.")
          /\ success' = None
          /\ UNCHANGED isProcessing
     ELSE /\ error' = None
          /\ success' = None
          /\ isProcessing' = Some("Preparing image")
  /\ download' = None
  /\ sinceRevert' = FALSE
  /\ UNCHANGED <<session, mounted, removals, renders, extractions, renderFailed>>

\* handleFile up to its await (lines 208-221).
handleFile(file) ==
  /\ Gesture
  /\ IF ~StartsWithImage(file.type)
     THEN /\ error' = Some("Please upload an image file (PNG, JPG, or WebP).")
          /\ success' = None
          /\ UNCHANGED <<isProcessing, reads>>
     ELSE IF file.size > MAX_FILE_SIZE
     THEN /\ error' = Some("File is too large.")
          /\ success' = None
          /\ UNCHANGED <<isProcessing, reads>>
     ELSE /\ error' = None
          /\ success' = None
          /\ isProcessing' = Some("Preparing image")
          /\ reads' = reads (+) One(file)
  /\ download' = None
  /\ sinceRevert' = FALSE
  /\ UNCHANGED <<session, mounted, removals, renders, extractions, renderFailed>>

\* handleFile after readFile resolved, without setFilters(initialFilters).
handleFileResolvedKeepsFilters(file) ==
  /\ file \in BagToSet(reads)
  /\ reads' = reads (-) One(file)
  /\ fileName' = Some(file.name)
  /\ fileSize' = file.size
  /\ originalImage' = Some(readFile(file))
  /\ baseImage' = Some(readFile(file))
  /\ success' = Some("Image ready. Explore AI tools to transform it.")
  /\ isProcessing' = None
  /\ IF mounted
     THEN applyFilters(baseImage', filters) /\ extractPaletteEffect(baseImage')
     ELSE UNCHANGED <<previewImage, renders, extractions>>
  /\ removals' = NotSuperseded(removals)
  /\ download' = None
  /\ UNCHANGED <<filters, palette, cssSnippet, paletteIdeas, error, mounted, gestures, history>>

\* handleFile after readFile resolved, without setOriginalImage (line 224).
handleFileResolvedSkipsOriginal(file) ==
  /\ file \in BagToSet(reads)
  /\ reads' = reads (-) One(file)
  /\ fileName' = Some(file.name)
  /\ fileSize' = file.size
  /\ baseImage' = Some(readFile(file))
  /\ filters' = initialFilters
  /\ success' = Some("Image ready. Explore AI tools to transform it.")
  /\ isProcessing' = None
  /\ IF mounted
     THEN applyFilters(baseImage', filters') /\ extractPaletteEffect(baseImage')
     ELSE UNCHANGED <<previewImage, renders, extractions>>
  /\ removals' = NotSuperseded(removals)
  /\ download' = None
  /\ UNCHANGED <<originalImage, palette, cssSnippet, paletteIdeas, error,
                 mounted, gestures, history>>

\* handleFile after readFile resolved (lines 222-227, 232) and the effects
\* of the re-render.
handleFileResolved(file) ==
  /\ file \in BagToSet(reads)
  /\ reads' = reads (-) One(file)
  /\ fileName' = Some(file.name)
  /\ fileSize' = file.size
  /\ originalImage' = Some(readFile(file))
  /\ baseImage' = Some(readFile(file))
  /\ filters' = initialFilters
  /\ success' = Some("Image ready. Explore AI tools to transform it.")
  /\ isProcessing' = None
  /\ IF mounted
     THEN applyFilters(baseImage', filters') /\ extractPaletteEffect(baseImage')
     ELSE UNCHANGED <<previewImage, renders, extractions>>
  /\ removals' = NotSuperseded(removals)
  /\ download' = None
  /\ UNCHANGED <<palette, cssSnippet, paletteIdeas, error, mounted, gestures, history>>

\* handleFile after readFile rejected, without the finally of line 233.
handleFileRejectedNoFinally(file) ==
  /\ file \in BagToSet(reads)
  /\ reads' = reads (-) One(file)
  /\ error' = Some("Unable to read image file.")
  /\ download' = None
  /\ UNCHANGED <<session, isProcessing, success, mounted, gestures, removals,
                 renders, extractions, history>>

\* handleFile after readFile rejected (lines 228-232).
handleFileRejected(file) ==
  /\ file \in BagToSet(reads)
  /\ reads' = reads (-) One(file)
  /\ error' = Some("Unable to read image file.")
  /\ isProcessing' = None
  /\ download' = None
  /\ UNCHANGED <<session, success, mounted, gestures, removals, renders, extractions, history>>

\* -------------------------------------------------------------- filters

\* handleFiltersChange, from a slider's onChange; the sliders are rendered
\* only while baseImage is set (line 394).
handleFiltersChange(key, value) ==
  /\ Gesture
  /\ baseImage # None
  /\ value # filters[key]
  /\ filters' = [filters EXCEPT ![key] = value]
  /\ applyFilters(baseImage, filters')
  /\ download' = None
  /\ sinceRevert' = FALSE
  /\ UNCHANGED <<fileName, fileSize, originalImage, baseImage, palette, cssSnippet, paletteIdeas,
                 status, mounted, reads, removals, extractions, renderFailed>>

\* resetFilters, from the Reset button (rendered while baseImage is set).
resetFilters ==
  /\ Gesture
  /\ baseImage # None
  /\ filters' = initialFilters
  /\ applyFilters(baseImage, filters')
  /\ download' = None
  /\ sinceRevert' = FALSE
  /\ UNCHANGED <<fileName, fileSize, originalImage, baseImage, palette, cssSnippet, paletteIdeas,
                 status, mounted, reads, removals, extractions, renderFailed>>

\* applyFilters after applyCanvasFilters resolved (lines 179-181).
applyFiltersResolved(r) ==
  /\ r \in BagToSet(renders)
  /\ renders' = renders (-) One(r)
  /\ IF mounted
     THEN previewImage' = Some(applyCanvasFilters(r.base, r.filters))
     ELSE UNCHANGED previewImage
  /\ download' = None
  /\ UNCHANGED <<fileName, fileSize, originalImage, baseImage, filters, palette,
                 cssSnippet, paletteIdeas, status, mounted, gestures, reads, removals, extractions, history>>

\* applyFilters after applyCanvasFilters threw (lines 182-185): the image
\* failed to load or the canvas has no 2D context.
applyFiltersRejected(r) ==
  /\ r \in BagToSet(renders)
  /\ renders' = renders (-) One(r)
  /\ error' = Some("Something went wrong applying filters.")
  /\ renderFailed' = TRUE
  /\ download' = None
  /\ UNCHANGED <<session, isProcessing, success, mounted, gestures, reads, removals,
                 extractions, sinceRevert>>

\* -------------------------------------------------------------- palette

\* extractPalette after loadImage resolved (lines 159-162); getPalette
\* finding no colour throws into the catch (lines 163-166).
extractPaletteResolved(e) ==
  /\ e \in BagToSet(extractions)
  /\ extractions' = extractions (-) One(e)
  /\ LET swatches == getPalette(e.source, 5)
         hexPalette == [i \in 1..Len(swatches) |-> toHex(swatches[i])]
     IN  IF swatches = <<>>
         THEN palette' = <<>> /\ cssSnippet' = <<>>
         ELSE /\ palette' = hexPalette
              /\ cssSnippet' = updateCssSnippet(Slice(hexPalette, 0, 3))
  /\ paletteIdeas' = usePaletteSuggestions(palette')
  /\ download' = None
  /\ UNCHANGED <<fileName, fileSize, originalImage, baseImage, previewImage, filters,
                 status, mounted, gestures, reads, removals, renders, history>>

\* extractPalette's catch raising a user-facing error as well.
extractPaletteRejectedSetsError(e) ==
  /\ e \in BagToSet(extractions)
  /\ extractions' = extractions (-) One(e)
  /\ palette' = <<>>
  /\ cssSnippet' = <<>>
  /\ paletteIdeas' = usePaletteSuggestions(palette')
  /\ error' = Some("Palette extraction failed.")
  /\ download' = None
  /\ UNCHANGED <<fileName, fileSize, originalImage, baseImage, previewImage, filters,
                 isProcessing, success, mounted, gestures, reads, removals,
                 renders, history>>

\* extractPalette after the import or loadImage rejected (lines 163-166).
extractPaletteRejected(e) ==
  /\ e \in BagToSet(extractions)
  /\ extractions' = extractions (-) One(e)
  /\ palette' = <<>>
  /\ cssSnippet' = <<>>
  /\ paletteIdeas' = usePaletteSuggestions(palette')
  /\ download' = None
  /\ UNCHANGED <<fileName, fileSize, originalImage, baseImage, previewImage, filters,
                 status, mounted, gestures, reads, removals, renders, history>>

\* --------------------------------------------------- background removal

\* The awaits of launchBackgroundRemoval (image load, toBlob, the segmentation
\* call, the re-encoding) read and write no state of the component between the
\* launch and the last one: the call is in flight from its launch until it
\* resolves or one of its steps throws.

RemoveAt(seq, i) == SubSeq(seq, 1, i - 1) \o SubSeq(seq, i + 1, Len(seq))

\* launchBackgroundRemoval up to its first await (lines 249-255).
launchBackgroundRemoval ==
  /\ Gesture
  /\ IF baseImage = None
     THEN UNCHANGED <<status, removals>>
     ELSE /\ isProcessing' = Some("Removing background")
          /\ error' = None
          /\ success' = None
          /\ removals' = Append(removals,
                [base |-> Val(baseImage), superseded |-> None])
  /\ download' = None
  /\ sinceRevert' = FALSE
  /\ UNCHANGED <<session, mounted, reads, renders, extractions, renderFailed>>

\* launchBackgroundRemoval after its last await resolved, storing the result
\* as the original as well.
launchBackgroundRemovalResolvedSetsOriginal(i) ==
  /\ i \in 1..Len(removals)
  /\ LET base64 == removeBackground(removals[i].base)
     IN  /\ baseImage' = Some(base64)
         /\ originalImage' = Some(base64)
         /\ removals' = RemoveAt(
               [j \in 1..Len(removals) |->
                  IF j < i THEN [removals[j] EXCEPT !.superseded = Some(base64)]
                  ELSE removals[j]], i)
  /\ success' = Some("Clean transparent background ready for export.")
  /\ isProcessing' = None
  /\ IF mounted
     THEN applyFilters(baseImage', filters) /\ extractPaletteEffect(baseImage')
     ELSE UNCHANGED <<previewImage, renders, extractions>>
  /\ download' = None
  /\ UNCHANGED <<fileName, fileSize, filters, palette, cssSnippet, paletteIdeas,
                 error, mounted, gestures, reads, history>>

\* launchBackgroundRemoval after its last await resolved (lines 278-279,
\* 284) and the effects of the re-render.
launchBackgroundRemovalResolved(i) ==
  /\ i \in 1..Len(removals)
  /\ LET base64 == removeBackground(removals[i].base)
     IN  /\ baseImage' = Some(base64)
         /\ removals' = RemoveAt(
               [j \in 1..Len(removals) |->
                  IF j < i THEN [removals[j] EXCEPT !.superseded = Some(base64)]
                  ELSE removals[j]], i)
  /\ success' = Some("Clean transparent background ready for export.")
  /\ isProcessing' = None
  /\ IF mounted
     THEN applyFilters(baseImage', filters) /\ extractPaletteEffect(baseImage')
     ELSE UNCHANGED <<previewImage, renders, extractions>>
  /\ download' = None
  /\ UNCHANGED <<fileName, fileSize, originalImage, filters, palette, cssSnippet, paletteIdeas,
                 error, mounted, gestures, reads, history>>

\* launchBackgroundRemoval after a step threw, with setIsProcessing(null) at
\* the end of the try block instead of in a finally.
launchBackgroundRemovalRejectedNoFinally(i) ==
  /\ i \in 1..Len(removals)
  /\ removals' = RemoveAt(removals, i)
  /\ error' = Some("Background removal failed. Try a different image or reload.")
  /\ download' = None
  /\ UNCHANGED <<session, isProcessing, success, mounted, gestures, reads, renders,
                 extractions, history>>

\* launchBackgroundRemoval after any of its steps threw (lines 280-284):
\* the image load, the missing 2D context, the null blob, the segmentation
\* call or the re-encoding.
launchBackgroundRemovalRejected(i) ==
  /\ i \in 1..Len(removals)
  /\ removals' = RemoveAt(removals, i)
  /\ error' = Some("Background removal failed. Try a different image or reload.")
  /\ isProcessing' = None
  /\ download' = None
  /\ UNCHANGED <<session, success, mounted, gestures, reads, renders, extractions, history>>

\* --------------------------------------------------------------- revert

\* revertToOriginal without setFilters(initialFilters).
revertToOriginalKeepsFilters ==
  /\ Gesture
  /\ IF originalImage = None
     THEN UNCHANGED <<baseImage, success, previewImage, renders,
                      extractions, removals>>
     ELSE /\ baseImage' = originalImage
          /\ success' = Some("Reverted to original image.")
          /\ applyFilters(baseImage', filters)
          /\ extractPaletteEffect(baseImage')
          /\ removals' = NotSuperseded(removals)
  /\ download' = None
  /\ sinceRevert' = TRUE
  /\ UNCHANGED <<fileName, fileSize, originalImage, filters, palette, cssSnippet, paletteIdeas,
                 isProcessing, error, mounted, reads, renderFailed>>

\* revertToOriginal without the early return of line 289.
revertToOriginalNoGuard ==
  /\ Gesture
  /\ baseImage' = originalImage
  /\ filters' = initialFilters
  /\ success' = Some("Reverted to original image.")
  /\ applyFilters(baseImage', filters')
  /\ extractPaletteEffect(baseImage')
  /\ removals' = NotSuperseded(removals)
  /\ download' = None
  /\ sinceRevert' = TRUE
  /\ UNCHANGED <<fileName, fileSize, originalImage, palette, cssSnippet, paletteIdeas,
                 isProcessing, error, mounted, reads, renderFailed>>

\* revertToOriginal (lines 288-293) and the effects of the re-render.
revertToOriginal ==
  /\ Gesture
  /\ IF originalImage = None
     THEN UNCHANGED <<baseImage, filters, success, previewImage, renders,
                      extractions, removals>>
     ELSE /\ baseImage' = originalImage
          /\ filters' = initialFilters
          /\ success' = Some("Reverted to original image.")
          /\ applyFilters(baseImage', filters')
          /\ extractPaletteEffect(baseImage')
          /\ removals' = NotSuperseded(removals)
  /\ download' = None
  /\ sinceRevert' = TRUE
  /\ UNCHANGED <<fileName, fileSize, originalImage, palette, cssSnippet, paletteIdeas,
                 isProcessing, error, mounted, reads, renderFailed>>

\* --------------------------------------------------------------- export

\* fileName.replace(/\.[^.]+$/, "-lumacraft.png"): the last dot and what
\* follows it, when something follows it.
ReplaceExtension(name) ==
  LET dots == {i \in 1..Len(name) : name[i] = "."}
      last == CHOOSE i \in dots : \A j \in dots : j <= i
  IN  IF dots = {} \/ last = Len(name) THEN name
      ELSE SubSeq(name, 1, last - 1) \o <<"-lumacraft.png">>

\* downloadImage taking baseImage before previewImage.
downloadImagePrefersBase ==
  /\ Gesture
  /\ LET href == IF baseImage # None THEN baseImage
                 ELSE IF previewImage # None THEN previewImage ELSE originalImage
     IN  IF href = None THEN download' = None
         ELSE download' = Some(
                [href |-> Val(href),
                 download |-> IF fileName # None THEN ReplaceExtension(Val(fileName))
                              ELSE <<"lumacraft-export.png">>])
  /\ sinceRevert' = FALSE
  /\ UNCHANGED <<session, status, inflight, mounted, renderFailed>>

\* downloadImage (lines 295-304).
downloadImage ==
  /\ Gesture
  /\ LET href == IF previewImage # None THEN previewImage
                 ELSE IF baseImage # None THEN baseImage ELSE originalImage
     IN  IF href = None THEN download' = None
         ELSE download' = Some(
                [href |-> Val(href),
                 download |-> IF fileName # None THEN ReplaceExtension(Val(fileName))
                              ELSE <<"lumacraft-export.png">>])
  /\ sinceRevert' = FALSE
  /\ UNCHANGED <<session, status, inflight, mounted, renderFailed>>

\* -------------------------------------------------------------- unmount

\* The cleanup of useIsMounted's effect (lines 92-94).
Unmount ==
  /\ Gesture
  /\ mounted' = FALSE
  /\ download' = None
  /\ UNCHANGED <<session, status, inflight, history>>

\* ----------------------------------------------------------------- spec

Next ==
  \/ \E file \in Files : handleFile(file)
  \/ \E file \in Files : handleFileResolved(file)
  \/ \E file \in Files : handleFileRejected(file)
  \/ \E key \in SliderKey : \E value \in SliderInputs(key) : handleFiltersChange(key, value)
  \/ resetFilters
  \/ \E r \in BagToSet(renders) : applyFiltersResolved(r)
  \/ \E r \in BagToSet(renders) : applyFiltersRejected(r)
  \/ \E e \in BagToSet(extractions) : extractPaletteResolved(e)
  \/ \E e \in BagToSet(extractions) : extractPaletteRejected(e)
  \/ launchBackgroundRemoval
  \/ \E i \in 1..Len(removals) : launchBackgroundRemovalResolved(i)
  \/ \E i \in 1..Len(removals) : launchBackgroundRemovalRejected(i)
  \/ revertToOriginal
  \/ downloadImage
  \/ Unmount

Spec == Init /\ [][Next]_vars

\* The same editor over runs one gesture longer.
SpecDeep == InitDeep /\ [][Next]_vars

\* Every started file read and every started background removal settles: the
\* browser's event loop runs the continuation of each pending promise.
Settles ==
  /\ WF_vars(\E file \in Files :
               handleFileResolved(file) \/ handleFileRejected(file))
  /\ WF_vars(\E i \in 1..Len(removals) :
               launchBackgroundRemovalResolved(i)
                 \/ launchBackgroundRemovalRejected(i))

\* The editor with every started read and removal eventually settling.
SpecLive == InitLive /\ [][Next]_vars /\ Settles

\* ---------------------------------------------------------------- claims

\* What the preview of the current baseImage and filters is.
LatestPreview ==
  IF baseImage = None THEN None
  ELSE Some(applyCanvasFilters(Val(baseImage), filters))

\* C1: once every started preview render has completed without failure,
\* previewImage equals render(baseImage, filters) for the current baseImage
\* and the current filters, whatever order the renders completed in.
C1_PreviewMatchesLatest ==
  (mounted /\ renders = EmptyBag /\ ~renderFailed) => previewImage = LatestPreview

\* The palette extractPalette stores for an image (lines 159-160).
HexPaletteOf(image) ==
  LET swatches == getPalette(image, 5)
  IN  [i \in 1..Len(swatches) |-> toHex(swatches[i])]

\* C2: once every started palette extraction has completed, palette and
\* cssSnippet are the ones extracted from the current baseImage, or both are
\* empty (that extraction failed), whatever order the extractions completed in.
C2_PaletteFromCurrentBase ==
  (mounted /\ extractions = EmptyBag /\ baseImage # None) =>
     \/ /\ palette = HexPaletteOf(Val(baseImage))
        /\ cssSnippet = updateCssSnippet(Slice(palette, 0, 3))
     \/ palette = <<>> /\ cssSnippet = <<>>

\* A file whose MIME type does not start with image/ or that is larger than
\* 8 MiB.
FailsValidation(file) ==
  \/ file.type \notin {"image/png", "image/jpeg", "image/webp", "image/gif"}
  \/ file.size > 8 * 1024 * 1024

\* C3: an upload that fails validation sets an error message, starts no file
\* read and leaves fileName, fileSize, originalImage, baseImage, previewImage,
\* filters, palette and cssSnippet as they were.
C3_RejectedUploadLeavesSession ==
  [][\A file \in Files :
       (handleFile(file) /\ FailsValidation(file)) =>
          /\ error' # None
          /\ reads' = reads
          /\ UNCHANGED <<fileName, fileSize, originalImage, baseImage,
                         previewImage, filters, palette, cssSnippet>>]_vars

\* A too large file was rejected while a session with a preview and a
\* palette exists.
C3_Witness ==
  /\ error = Some("File is too large.")
  /\ baseImage # None
  /\ previewImage # None
  /\ palette # <<>>
  /\ reads = EmptyBag

\* C4: when the read of a valid uploaded file resolves, fileName and fileSize
\* are the file's, originalImage and baseImage both are the file's data,
\* filters are (0,0,0), the success status is set and the processing label is
\* cleared, all in that one step; when the read rejects, an error status is
\* set and originalImage, baseImage, filters, fileName and fileSize are kept.
C4_UploadReplacesSession ==
  [][\A file \in Files :
       /\ handleFileResolved(file) =>
            /\ fileName' = Some(file.name)
            /\ fileSize' = file.size
            /\ originalImage' = Some([src |-> file.data, rm |-> 0])
            /\ baseImage' = originalImage'
            /\ filters' = [brightness |-> 0, contrast |-> 0, saturation |-> 0]
            /\ success' = Some("Image ready. Explore AI tools to transform it.")
            /\ isProcessing' = None
       /\ handleFileRejected(file) =>
            /\ error' = Some("Unable to read image file.")
            /\ UNCHANGED <<originalImage, baseImage, filters, fileName, fileSize>>]_vars

\* An upload has just replaced a session: the preview on display is still the
\* one of the previous upload, rendered with moved sliders.
C4_Witness ==
  /\ success = Some("Image ready. Explore AI tools to transform it.")
  /\ isProcessing = None
  /\ baseImage = originalImage
  /\ filters = initialFilters
  /\ previewImage # None
  /\ Val(previewImage).image.src # Val(baseImage).src
  /\ Val(previewImage).brightnessPct # 100

\* C5: when a background removal fails, baseImage, originalImage and filters
\* are what they were, the error status "Background removal failed..." is
\* set, that call sets no success status and the processing label is cleared.
C5_FailedRemovalKeepsImages ==
  [][/\ launchBackgroundRemoval =>
          /\ UNCHANGED <<baseImage, originalImage, filters>>
          /\ success' = None
     /\ \A i \in 1..Len(removals) :
          launchBackgroundRemovalRejected(i) =>
             /\ UNCHANGED <<baseImage, originalImage, filters, success>>
             /\ error' = Some("Background removal failed. Try a different image or reload.")
             /\ isProcessing' = None]_vars

\* A removal launched on an image with moved sliders has failed.
C5_Witness ==
  /\ error = Some("Background removal failed. Try a different image or reload.")
  /\ isProcessing = None
  /\ success = None
  /\ baseImage # None
  /\ filters # initialFilters
  /\ removals = <<>>

\* C6: when two background removals are in flight together on one session and
\* both succeed, the final baseImage is the result of the call invoked second,
\* whichever of the two resolves first.
C6_LastInvokedRemovalWins ==
  [][\A i \in 1..Len(removals) :
       ( /\ launchBackgroundRemovalResolved(i)
         /\ removals[i].superseded # None
         /\ Val(removals[i].superseded).src = removals[i].base.src
         /\ Val(originalImage).src = removals[i].base.src )
       => baseImage' = removals[i].superseded]_vars

\* C7: in every reachable state baseImage is derived from the current
\* originalImage: it is originalImage or the result of background removals
\* applied to it.
C7_BaseDerivedFromOriginal ==
  IF originalImage = None THEN baseImage = None
  ELSE baseImage # None /\ Val(baseImage).src = Val(originalImage).src

\* C8: revertToOriginal, when an originalImage exists, sets baseImage to
\* originalImage and filters to (0,0,0) in one step and leaves originalImage,
\* fileName and fileSize unchanged; with no originalImage it changes nothing.
C8_RevertRestoresOriginal ==
  [][revertToOriginal =>
       IF originalImage # None
       THEN /\ baseImage' = originalImage
            /\ filters' = [brightness |-> 0, contrast |-> 0, saturation |-> 0]
            /\ UNCHANGED <<originalImage, fileName, fileSize>>
       ELSE UNCHANGED <<session, status, inflight>>]_vars

\* A revert has undone a background removal: the preview on display is still
\* the one rendered before it.
C8_Witness ==
  /\ sinceRevert
  /\ success = Some("Reverted to original image.")
  /\ baseImage = originalImage
  /\ filters = initialFilters
  /\ previewImage # None
  /\ Val(previewImage).image.rm > 0

\* C9: export invoked right after revertToOriginal, with no other user action
\* in between, downloads the pixels of the original upload at the default
\* filters (0,0,0): its render at the defaults, or the upload itself.
C9_ExportAfterRevert ==
  [][(sinceRevert /\ originalImage # None /\ downloadImage) =>
       /\ download' # None
       /\ Val(download').href \in
             { Val(originalImage),
               applyCanvasFilters(Val(originalImage),
                  [brightness |-> 0, contrast |-> 0, saturation |-> 0]) }]_vars

\* C10: originalImage changes only when the file read of a valid upload
\* resolves.
C10_OriginalChangesOnlyOnUpload ==
  [][originalImage' # originalImage =>
       \E file \in Files :
         /\ ~FailsValidation(file)
         /\ handleFileResolved(file)
         /\ originalImage' = Some([src |-> file.data, rm |-> 0])]_vars

\* A second upload has replaced the original after a background removal
\* succeeded on the first, whose palette is still on display.
C10_Witness ==
  /\ originalImage # None
  /\ success = Some("Image ready. Explore AI tools to transform it.")
  /\ palette # <<>>
  /\ palette = HexPaletteOf([src |-> 1, rm |-> 1])
  /\ Val(originalImage).src = 2

\* C11: in every reachable state the CSS snippet is empty exactly when the
\* palette has fewer than three entries, and a non-empty snippet is the fixed
\* template filled with the first three colours of the current palette (the
\* gradient runs first, second, third; the text colour is the third; the
\* shadow is the first with the alpha suffix 33).
C11_SnippetFollowsPalette ==
  /\ (cssSnippet = <<>>) <=> (Len(palette) < 3)
  /\ cssSnippet # <<>> =>
       cssSnippet =
         << "background: linear-gradient(135deg, ", palette[1], " 0%, ",
            palette[2], " 50%, ", palette[3], " 100%);",
            "color: ", palette[3], ";",
            "box-shadow: 0 24px 48px ", palette[1] \o <<"3", "3">>, ";",
            "border-radius: 24px;",
            "padding: clamp(32px, 5vw, 64px);" >>

\* A palette of exactly three colours shows its snippet.
C11_Witness == Len(palette) = 3 /\ cssSnippet # <<>>

\* C12: every step that completes a successful action (an upload's read
\* resolving, a background removal resolving, a revert with an original to go
\* back to) leaves the error message cleared and a success message set,
\* whatever error was displayed before.
C12_SuccessClearsError ==
  [][((\E file \in Files : handleFileResolved(file))
        \/ (\E i \in 1..Len(removals) : launchBackgroundRemovalResolved(i))
        \/ (originalImage # None /\ revertToOriginal))
      => (error' = None /\ success' # None)]_vars

\* C13: in every reachable state in which a background removal is in flight
\* (started, neither resolved nor rejected yet), the processing label is
\* "Removing background".
C13_RemovalLabelWhileInFlight ==
  removals # <<>> => isProcessing = Some("Removing background")

\* C14: every export step downloads previewImage when it is present, otherwise
\* baseImage, otherwise originalImage, and downloads nothing when all three are
\* absent; it leaves the session, the status messages and the operations in
\* flight as they were.
C14_ExportPicksMostRefined ==
  [][downloadImage =>
       /\ IF previewImage # None
          THEN download' # None /\ Val(download').href = Val(previewImage)
          ELSE IF baseImage # None
          THEN download' # None /\ Val(download').href = Val(baseImage)
          ELSE IF originalImage # None
          THEN download' # None /\ Val(download').href = Val(originalImage)
          ELSE download' = None
       /\ UNCHANGED <<session, status, inflight>>]_vars

\* An export made once a render has resolved has downloaded the preview.
C14_Witness ==
  /\ download # None
  /\ previewImage # None
  /\ baseImage # None
  /\ Val(download).href = Val(previewImage)

\* C15: whenever an export has downloaded, the download is named
\* "<stem>-lumacraft.png" after the stem of the known file name (for names with
\* no extension and for names with several dots alike), and
\* "lumacraft-export.png" when no file name is known. The stem is the name
\* without its extension, the extension being the last dot and what follows
\* it; a name with no dot has no extension.
C15_ExportName ==
  LET Stem(name) ==
        LET dots == {i \in 1..Len(name) : name[i] = "."}
        IN  IF dots = {} THEN name
            ELSE SubSeq(name, 1,
                        (CHOOSE i \in dots : \A j \in dots : j <= i) - 1)
  IN  download # None =>
        Val(download).download =
          IF fileName # None THEN Stem(Val(fileName)) \o <<"-lumacraft.png">>
          ELSE <<"lumacraft-export.png">>

\* C16: a picked or dropped file is handed to the reader if and only if its
\* MIME type is image/png, image/jpeg or image/webp and its size is at most
\* 8 * 1024 * 1024 bytes (a file of exactly that size included); every other
\* file is rejected with no read started.
C16_AcceptedTypesAndSize ==
  [][\A file \in Files :
       handleFile(file) =>
         IF /\ file.type \in {"image/png", "image/jpeg", "image/webp"}
            /\ file.size <= 8 * 1024 * 1024
         THEN reads' = reads (+) One(file)
         ELSE reads' = reads]_vars

\* C17: every step in which a palette extraction fails (the image fails to
\* load, or no colour is found) leaves palette and cssSnippet both empty and
\* changes nothing else: the processing label, the error and success messages,
\* baseImage, originalImage, previewImage and filters keep their values.
C17_FailedExtractionClearsPalette ==
  [][\A e \in BagToSet(extractions) :
       (extractPaletteRejected(e)
          \/ (getPalette(e.source, 5) = <<>> /\ extractPaletteResolved(e)))
       => /\ palette' = <<>>
          /\ cssSnippet' = <<>>
          /\ UNCHANGED <<isProcessing, error, success, baseImage, originalImage,
                         previewImage, filters, fileName, fileSize>>]_vars

\* The extraction for the loaded image has failed: the palette is empty with
\* an image loaded, no extraction pending, and the upload's success message
\* still displayed.
C17_Witness ==
  /\ mounted
  /\ baseImage # None
  /\ extractions = EmptyBag
  /\ palette = <<>>
  /\ cssSnippet = <<>>
  /\ success = Some("Image ready. Explore AI tools to transform it.")
  /\ error = None

\* C18: the layout ideas shown are a function of the palette alone: none when
\* the palette is empty, and for a palette of one to five colours exactly
\* three texts built from primary = the first colour, accent = the second
\* colour if there is one and the first otherwise, subtle = the last colour.
C18_LayoutIdeasOfPalette ==
  /\ Len(palette) <= 5
  /\ palette = <<>> => paletteIdeas = <<>>
  /\ palette # <<>> =>
       LET primary == palette[1]
           accent == IF Len(palette) > 1 THEN palette[2] ELSE palette[1]
           subtle == palette[Len(palette)]
       IN  /\ Len(paletteIdeas) = 3
           /\ paletteIdeas[1] =
                << "Hero headline with ", primary, " accent buttons and ",
                   subtle, " background cards" >>
           /\ paletteIdeas[2] =
                << "Landing page split layout using ", primary,
                   " gradients and ", accent, " hover states" >>
           /\ paletteIdeas[3] =
                << "E-commerce feature grid pairing ", primary,
                   " highlights with ", subtle, " surface tones" >>

\* A palette of a single colour has its three ideas, accent and subtle both
\* falling back to that colour.
C18_Witness ==
  /\ Len(palette) = 1
  /\ Len(paletteIdeas) = 3
  /\ paletteIdeas[2][4] = palette[1]

\* C19: at most one mutating operation (the file read of an upload, or a
\* background removal) is in flight at any time.
C19_SingleInFlight == BagCardinality(reads) + Len(removals) <= 1

\* C20: in every reachable state at most one of the processing label, the
\* error message and the success message is set (the status is idle,
\* processing, error or success).
C20_OneStatus ==
  Cardinality({m \in {"isProcessing", "error", "success"} :
                 [isProcessing |-> isProcessing, error |-> error,
                  success |-> success][m] # None}) <= 1

\* C21: when every started asynchronous step eventually settles, a processing
\* label set by an upload or a background removal is always followed by a
\* state in which the label is cleared, whether the operation succeeded or
\* failed.
C21_ProcessingEventuallyCleared ==
  (isProcessing # None) ~> (isProcessing = None)

\* A removal has failed and the label is cleared, with the failure displayed.
C21_Witness ==
  /\ isProcessing = None
  /\ removals = <<>>
  /\ reads = EmptyBag
  /\ error = Some("Background removal failed. Try a different image or reload.")

\* C22: once the component has unmounted, a preview render or a palette
\* extraction that resolves writes nothing: the session and the status
\* messages are as they were before the step.
C22_ResultsDiscardedAfterUnmount ==
  [][(~mounted
        /\ \/ \E r \in BagToSet(renders) : applyFiltersResolved(r)
           \/ \E e \in BagToSet(extractions) : extractPaletteResolved(e))
      => UNCHANGED <<session, status>>]_vars

\* C23: while no image is loaded, remove-background, revert and export have no
\* effect (no state change, no asynchronous work started, no download), the
\* filter controls are not offered, and the only step that loads an image is
\* the read of a valid upload resolving.
C23_EmptyStateOnlyUpload ==
  [][baseImage = None =>
       /\ (launchBackgroundRemoval \/ revertToOriginal \/ downloadImage)
            => (UNCHANGED <<session, status, inflight>> /\ download' = None)
       /\ ~(\E key \in SliderKey :
              \E value \in sliders[key].min .. sliders[key].max :
                handleFiltersChange(key, value))
       /\ ~resetFilters
       /\ baseImage' # None =>
            \E file \in Files :
              /\ StartsWithImage(file.type)
              /\ file.size <= MAX_FILE_SIZE
              /\ handleFileResolved(file)]_vars

\* Revert was clicked with no image loaded and nothing happened.
C23_Witness ==
  /\ baseImage = None
  /\ sinceRevert
  /\ success = None
  /\ previewImage = None
  /\ renders = EmptyBag

\* C24: in every reachable state originalImage, baseImage and fileName are all
\* absent or all present, previewImage is present only if baseImage is, and
\* palette is non-empty only if baseImage is present; and once baseImage is
\* present no step makes it absent again.
C24_ImagesPresentTogether ==
  /\ [](/\ (originalImage = None) <=> (baseImage = None)
        /\ (fileName = None) <=> (baseImage = None)
        /\ previewImage # None => baseImage # None
        /\ palette # <<>> => baseImage # None)
  /\ [][baseImage # None => baseImage' # None]_vars

\* An image is loaded with its name, its original, a preview and a palette.
C24_Witness ==
  /\ baseImage # None
  /\ originalImage # None
  /\ fileName # None
  /\ previewImage # None
  /\ palette # <<>>
  /\ baseImage # originalImage

====
